---- MODULE Spec2Model ----
(***************************************************************************)
(* Model of src/numeric_evaluator/parser.rs: the operator-precedence       *)
(* parser that turns the grammar's token tree (pest Pairs) into the Expr   *)
(* AST.  Texts and token text spans are sequences of one-character         *)
(* strings.  A token (pest Pair) is a record                               *)
(*     [rule |-> its Rule, str |-> its text span, inner |-> its children]. *)
(* An outcome of a call is either an Expr value or a panic (the call       *)
(* unwinds and returns nothing), written [kind |-> "Panic", msg |-> ...].  *)
(***************************************************************************)
EXTENDS Integers, Sequences, FiniteSets, TLC

\* entry:      the public function called, "parse" or "parse_expr"
\* expression: the text handed to parse
\* pairs:      the token sequence handed to parse_expr (by the caller, or by
\*             parse once the grammar has accepted the text)
\* result:     the outcome of the call, NoResult before it
VARIABLES entry, expression, pairs, result

vars == <<entry, expression, pairs, result>>

(***************************************************************************)
(* Tokens and AST constructors                                             *)
(***************************************************************************)
Tok(rule, str, inner) == [rule |-> rule, str |-> str, inner |-> inner]

Number(v) == [kind |-> "Number", val |-> v]
BinOp(lhs, op, rhs) == [kind |-> "BinOp", lhs |-> lhs, op |-> op, rhs |-> rhs]
UnaryMinus(e) == [kind |-> "UnaryMinus", arg |-> e]
Function(name, args) == [kind |-> "Function", name |-> name, args |-> args]

Panic(msg) == [kind |-> "Panic", msg |-> msg]
IsPanic(r) == r.kind = "Panic"

NoResult == [kind |-> "None"]

(***************************************************************************)
(* str::parse::<f64>() on a token's text, then unwrap().                   *)
(*                                                                         *)
(* f64::from_str accepts                                                   *)
(*     Float  ::= Sign? ( 'inf' | 'infinity' | 'nan' | Number )            *)
(*     Number ::= ( Digit+ | Digit+ '.' Digit* | Digit* '.' Digit+ ) Exp?  *)
(*     Exp    ::= 'e' Sign? Digit+          Sign ::= '+' | '-'             *)
(* with the letters in either case, and returns the f64 nearest to the     *)
(* decimal (ties to the even mantissa); any other text is Err.             *)
(*                                                                         *)
(* An f64 is the record [class, neg, mant, exp]: class is "finite", "inf"  *)
(* or "nan", neg its sign bit, and a finite value is mant * 2^exp, mant    *)
(* being the bits of an odd number, most significant first (<<>> and exp 0 *)
(* for zero).  Two texts give equal records exactly when they give the     *)
(* same f64 bits, NaN payloads aside.                                      *)
(***************************************************************************)
Digits == {"0", "1", "2", "3", "4", "5", "6", "7", "8", "9"}

DigitValues ==
    [c \in Digits |->
        CASE c = "0" -> 0 [] c = "1" -> 1 [] c = "2" -> 2 [] c = "3" -> 3
          [] c = "4" -> 4 [] c = "5" -> 5 [] c = "6" -> 6 [] c = "7" -> 7
          [] c = "8" -> 8 [] c = "9" -> 9]

DigitVal(c) == DigitValues[c]

Finite(neg, mant, exp) ==
    [class |-> "finite", neg |-> neg, mant |-> mant, exp |-> exp]
Zero(neg) == Finite(neg, <<>>, 0)
Infinity(neg) == [class |-> "inf", neg |-> neg, mant |-> <<>>, exp |-> 0]
NaN(neg) == [class |-> "nan", neg |-> neg, mant |-> <<>>, exp |-> 0]

(* the f64 format: 53 mantissa bits, least bit 2^-1074, all values < 2^1024 *)
MantissaBits == 53
MinBitExp == -1074
MaxBitExp == 1024

(* Natural numbers of any size, as their digits in base 2^15, least first, *)
(* the last digit nonzero (<<>> is 0).                                     *)
LimbBits == 15
LimbBase == 32768

(* a * m + c *)
RECURSIVE LMulAdd(_, _, _)
LMulAdd(a, m, c) ==
    IF a = <<>> THEN (IF c = 0 THEN <<>> ELSE <<c>>)
    ELSE LET s == a[1] * m + c
         IN  <<s % LimbBase>> \o LMulAdd(Tail(a), m, s \div LimbBase)

(* The loops below over the digits of a text or the bits of a number are *)
(* written by halving the range, the first half being computed before the *)
(* second is entered, which keeps the evaluation shallow.                 *)

(* the number written by the decimal digits ds[lo..hi] after those of acc *)
RECURSIVE LFromDigits(_, _, _, _)
LFromDigitsAfter(ds, lo, hi, left) ==
    IF left = <<>> /\ lo > hi THEN <<>> ELSE LFromDigits(ds, lo, hi, left)

LFromDigits(ds, lo, hi, acc) ==
    IF lo > hi THEN acc
    ELSE IF lo = hi THEN LMulAdd(acc, 10, DigitVal(ds[lo]))
    ELSE LFromDigitsAfter(ds, (lo + hi) \div 2 + 1, hi,
                          LFromDigits(ds, lo, (lo + hi) \div 2, acc))

(* a * 10^n *)
RECURSIVE LTimesPow10(_, _)
LTimesPow10After(half, n) ==
    IF half = <<>> THEN <<>> ELSE LTimesPow10(half, n)

LTimesPow10(a, n) ==
    IF n = 0 THEN a
    ELSE IF n = 1 THEN LMulAdd(a, 10, 0)
    ELSE LTimesPow10After(LTimesPow10(a, n \div 2), n - n \div 2)

RECURSIVE LGeqFrom(_, _, _)
LGeqFrom(a, b, i) ==
    IF i = 0 THEN TRUE
    ELSE IF a[i] # b[i] THEN a[i] > b[i]
    ELSE LGeqFrom(a, b, i - 1)

(* a >= b *)
LGeq(a, b) ==
    IF Len(a) # Len(b) THEN Len(a) > Len(b) ELSE LGeqFrom(a, b, Len(a))

RECURSIVE LSubBorrow(_, _, _)
LSubBorrow(a, b, borrow) ==
    IF a = <<>> THEN <<>>
    ELSE LET d == a[1] - (IF b = <<>> THEN 0 ELSE b[1]) - borrow
             bt == IF b = <<>> THEN <<>> ELSE Tail(b)
         IN  IF d < 0 THEN <<d + LimbBase>> \o LSubBorrow(Tail(a), bt, 1)
             ELSE <<d>> \o LSubBorrow(Tail(a), bt, 0)

RECURSIVE LTrim(_)
LTrim(a) ==
    IF a # <<>> /\ a[Len(a)] = 0 THEN LTrim(SubSeq(a, 1, Len(a) - 1)) ELSE a

(* a - b, for a >= b *)
LSub(a, b) == LTrim(LSubBorrow(a, b, 0))

(* the bits of n, most significant first, <<>> for 0 *)
RECURSIVE NatBits(_)
NatBits(n) == IF n = 0 THEN <<>> ELSE Append(NatBits(n \div 2), n % 2)

(* the bits of the limbs a[1..i], LimbBits for each *)
RECURSIVE LLowBits(_, _)
LLowBits(a, i) ==
    IF i = 0 THEN <<>>
    ELSE [j \in 1..LimbBits |-> (a[i] \div 2^(LimbBits - j)) % 2]
         \o LLowBits(a, i - 1)

RECURSIVE StripLeading(_, _)
StripLeading(s, z) ==
    IF s # <<>> /\ s[1] = z THEN StripLeading(Tail(s), z) ELSE s

RECURSIVE LastOther(_, _, _)
LastOther(s, z, i) ==
    IF i = 0 \/ s[i] # z THEN i ELSE LastOther(s, z, i - 1)

StripTrailing(s, z) == SubSeq(s, 1, LastOther(s, z, Len(s)))

(* the bits of a, most significant first *)
LBits(a) ==
    IF a = <<>> THEN <<>> ELSE NatBits(a[Len(a)]) \o LLowBits(a, Len(a) - 1)

(* Long division by d of the number whose bits are `bits` followed by    *)
(* zeros.  DivStep takes bit i into the remainder s.r and puts the next   *)
(* bit on the quotient s.q; DivBits does so for the bits lo..hi.  Once    *)
(* the remainder is 0 and only zeros follow, so do only zeros in s.q.     *)
DivCompare(d, q, r2) ==
    IF LGeq(r2, d) THEN [r |-> LSub(r2, d), q |-> Append(q, 1)]
    ELSE [r |-> r2, q |-> IF q = <<>> THEN q ELSE Append(q, 0)]

DivStep(bits, d, s, i) ==
    DivCompare(d, s.q, LMulAdd(s.r, 2, IF i <= Len(bits) THEN bits[i] ELSE 0))

RECURSIVE DivBits(_, _, _, _, _)
DivBitsAfter(bits, d, left, lo, hi) ==
    IF left.r = <<>> /\ lo > Len(bits)
    THEN [r |-> <<>>,
          q |-> IF left.q = <<>> THEN <<>>
                ELSE left.q \o [i \in 1..(hi - lo + 1) |-> 0]]
    ELSE DivBits(bits, d, left, lo, hi)

DivBits(bits, d, s, lo, hi) ==
    IF lo > hi THEN s
    ELSE IF lo = hi THEN DivStep(bits, d, s, lo)
    ELSE DivBitsAfter(bits, d, DivBits(bits, d, s, lo, (lo + hi) \div 2),
                      (lo + hi) \div 2 + 1, hi)

(* b + 1, on bits most significant first *)
RECURSIVE IncBits(_)
IncBits(b) ==
    IF b = <<>> THEN <<1>>
    ELSE IF b[Len(b)] = 0 THEN SubSeq(b, 1, Len(b) - 1) \o <<1>>
    ELSE IncBits(SubSeq(b, 1, Len(b) - 1)) \o <<0>>

Max(a, b) == IF a >= b THEN a ELSE b

(* the f64 kept * 2^exp: overflow is infinity, the mantissa is made odd *)
Odd(neg, kept, exp, m) == Finite(neg, m, exp + Len(kept) - Len(m))

Canonical(neg, kept, exp) ==
    IF kept = <<>> THEN Zero(neg)
    ELSE IF Len(kept) + exp > MaxBitExp THEN Infinity(neg)
    ELSE Odd(neg, kept, exp, StripTrailing(kept, 0))

(* q without its d lowest bits, rounded to nearest, a tie to the even: *)
(* sticky tells that the value has bits below those of q               *)
RoundBits(q, d, sticky, kept) ==
    IF q[Len(q) - d + 1] = 1
       /\ \/ sticky
          \/ \E i \in (Len(q) - d + 2)..Len(q) : q[i] = 1
          \/ (kept # <<>> /\ kept[Len(kept)] = 1)
    THEN IncBits(kept) ELSE kept

(* The f64 nearest to (q + f) * 2^-k, where q is given by its bits and    *)
(* 0 <= f < 1 with sticky = (f # 0): the d lowest bits of q do not fit the *)
(* format.                                                                 *)
RoundAt(neg, q, k, sticky, d) ==
    IF d = 0 THEN Canonical(neg, q, 0 - k)
    ELSE IF d > Len(q) THEN Zero(neg)
    ELSE Canonical(neg, RoundBits(q, d, sticky, SubSeq(q, 1, Len(q) - d)),
                   d - k)

RoundF64(neg, q, k, sticky) ==
    RoundAt(neg, q, k, sticky,
            Max(Max(Len(q) - MantissaBits, k + MinBitExp), 0))

(* bounds on the decimal exponent beyond which every f64 is infinity (the *)
(* value is at least 10^309) or zero (it is below 10^-324)                *)
MaxDecimalExp == 309
MinDecimalExp == -324

(* the f64 nearest to num / den, the quotient taken to k bits below 1, *)
(* which makes it at least two bits longer than the mantissa           *)
Quotient(neg, qr, k) == RoundF64(neg, qr.q, k, qr.r # <<>>)

Shifted(neg, nb, den, k) ==
    Quotient(neg, DivBits(nb, den, [r |-> <<>>, q |-> <<>>], 1, Len(nb) + k), k)

Ratio(neg, nb, den) ==
    IF den = <<1>> THEN RoundF64(neg, nb, 0, FALSE)
    ELSE Shifted(neg, nb, den,
                 Max(0, MantissaBits + 2 + Len(LBits(den)) - Len(nb)))

(* The same for a num and a den that are small enough for the machine's *)
(* integers (as from_str itself first tries the arithmetic of the       *)
(* machine on a short mantissa and a small exponent): the bits of       *)
(* num \div den, then bits of the fraction, got by doubling the         *)
(* remainder, until the quotient is two bits longer than the mantissa   *)
(* or the remainder is 0, the quotient then being exact; s.k counts the *)
(* bits of the fraction.  A num with the den 1 is an f64 as it stands.  *)
MaxFastDigits == 9

RECURSIVE DigitsVal(_, _)
DigitsVal(ds, i) ==
    IF i = 0 THEN 0 ELSE 10 * DigitsVal(ds, i - 1) + DigitVal(ds[i])

FracStep(s, r2, den) ==
    IF r2 >= den THEN [r |-> r2 - den, q |-> Append(s.q, 1), k |-> s.k + 1]
    ELSE [r |-> r2, q |-> IF s.q = <<>> THEN s.q ELSE Append(s.q, 0),
          k |-> s.k + 1]

RECURSIVE FracBits(_, _)
FracBits(s, den) ==
    IF s.r = 0 \/ Len(s.q) >= MantissaBits + 2 THEN s
    ELSE FracBits(FracStep(s, 2 * s.r, den), den)

FastQuotient(neg, s) == RoundF64(neg, s.q, s.k, s.r # 0)

RECURSIVE ExactInt(_, _, _)
ExactInt(neg, n, e) ==
    IF n % 2 = 0 THEN ExactInt(neg, n \div 2, e + 1)
    ELSE Finite(neg, NatBits(n), e)

FastRatio(neg, num, den) ==
    IF num = 0 THEN Zero(neg)
    ELSE IF den = 1 THEN ExactInt(neg, num, 0)
    ELSE FastQuotient(neg,
                      FracBits([r |-> num % den, q |-> NatBits(num \div den),
                                k |-> 0],
                               den))

(* the f64 nearest to sig * 10^e10, sig being decimal digits, the first *)
(* not 0                                                                *)
Significant(neg, sig, e10) ==
    IF sig = <<>> THEN Zero(neg)
    ELSE IF Len(sig) + e10 > MaxDecimalExp THEN Infinity(neg)
    ELSE IF Len(sig) + e10 <= MinDecimalExp THEN Zero(neg)
    ELSE Ratio(neg,
               LBits(LTimesPow10(LFromDigits(sig, 1, Len(sig), <<>>),
                                 Max(e10, 0))),
               LTimesPow10(<<1>>, Max(0 - e10, 0)))

(* the f64 nearest to ds * 10^e10, ds being decimal digits *)
DecimalToF64(neg, ds, e10) ==
    IF Len(ds) <= MaxFastDigits /\ e10 <= 0 /\ 0 - e10 <= MaxFastDigits
    THEN FastRatio(neg, DigitsVal(ds, Len(ds)), 10^(0 - e10))
    ELSE Significant(neg, StripLeading(ds, "0"), e10)

(* the index after the run of digits of s that starts at i *)
RECURSIVE DigitRun(_, _)
DigitRun(s, i) ==
    IF i <= Len(s) /\ s[i] \in Digits THEN DigitRun(s, i + 1) ELSE i

(* the exponent's digits: the value stops growing once it has reached 2^16 *)
ExpSaturation == 65536

RECURSIVE ExpValue(_, _)
ExpValue(ds, acc) ==
    IF ds = <<>> THEN acc
    ELSE ExpValue(Tail(ds), IF acc < ExpSaturation
                            THEN 10 * acc + DigitVal(Head(ds)) ELSE acc)

Lower(c) ==
    CASE c = "A" -> "a" [] c = "E" -> "e" [] c = "F" -> "f" [] c = "I" -> "i"
      [] c = "N" -> "n" [] c = "T" -> "t" [] c = "Y" -> "y" [] OTHER -> c

(* Number, read from the left: [ok |-> FALSE], or the digits of the        *)
(* mantissa and the decimal exponent.  ds are the digits read, nfrac of    *)
(* them after the dot; the exponent's digits are s[j..end-1] and must end  *)
(* the text.                                                               *)
Exponent(s, ds, nfrac, minus, j, end) ==
    IF end = j \/ end # Len(s) + 1 THEN [ok |-> FALSE]
    ELSE [ok |-> TRUE, digits |-> ds,
          exp |-> (IF minus THEN -1 ELSE 1)
                     * ExpValue(SubSeq(s, j, end - 1), 0) - nfrac]

AfterMantissa(s, ds, nfrac, i) ==
    IF ds = <<>> THEN [ok |-> FALSE]
    ELSE IF i = Len(s) + 1 THEN [ok |-> TRUE, digits |-> ds, exp |-> 0 - nfrac]
    ELSE IF Lower(s[i]) # "e" THEN [ok |-> FALSE]
    ELSE IF i + 1 <= Len(s) /\ s[i + 1] \in {"+", "-"}
    THEN Exponent(s, ds, nfrac, s[i + 1] = "-", i + 2, DigitRun(s, i + 2))
    ELSE Exponent(s, ds, nfrac, FALSE, i + 1, DigitRun(s, i + 1))

AfterDot(s, i1, i2) ==
    AfterMantissa(s, SubSeq(s, 1, i1 - 1) \o SubSeq(s, i1 + 1, i2 - 1),
                  i2 - i1 - 1, i2)

AfterInt(s, i1) ==
    IF i1 <= Len(s) /\ s[i1] = "." THEN AfterDot(s, i1, DigitRun(s, i1 + 1))
    ELSE AfterMantissa(s, SubSeq(s, 1, i1 - 1), 0, i1)

ParseNumber(s) == AfterInt(s, DigitRun(s, 1))

InfNan(low, neg) ==
    IF low = <<"i", "n", "f">>
       \/ low = <<"i", "n", "f", "i", "n", "i", "t", "y">>
    THEN [ok |-> TRUE, val |-> Infinity(neg)]
    ELSE IF low = <<"n", "a", "n">> THEN [ok |-> TRUE, val |-> NaN(neg)]
    ELSE [ok |-> FALSE]

ParseInfNan(s, neg) == InfNan([i \in 1..Len(s) |-> Lower(s[i])], neg)

NumberOrInfNan(body, neg, n) ==
    IF n.ok THEN [ok |-> TRUE, val |-> DecimalToF64(neg, n.digits, n.exp)]
    ELSE ParseInfNan(body, neg)

Unsigned(body, neg) ==
    IF body = <<>> THEN [ok |-> FALSE]
    ELSE NumberOrInfNan(body, neg, ParseNumber(body))

ParseF64(s) ==
    IF s = <<>> THEN [ok |-> FALSE]
    ELSE IF s[1] \in {"+", "-"} THEN Unsigned(Tail(s), s[1] = "-")
    ELSE Unsigned(s, FALSE)

(***************************************************************************)
(* PRATT_PARSER: the operator table.  Each .op(...) call opens the next    *)
(* precedence tier; the operators joined by | share the tier.              *)
(***************************************************************************)
Infix(rule, assoc) == [rule |-> rule, affix |-> "Infix", assoc |-> assoc]
Prefix(rule) == [rule |-> rule, affix |-> "Prefix", assoc |-> "None"]

OpTable(tiers) ==
    LET rules == UNION {{o.rule : o \in tiers[i]} : i \in 1..Len(tiers)}
    IN  [r \in rules |->
            LET i == CHOOSE j \in 1..Len(tiers) : \E o \in tiers[j] : o.rule = r
                o == CHOOSE p \in tiers[i] : p.rule = r
            IN  [affix |-> o.affix, assoc |-> o.assoc, prec |-> 10 * (i + 1)]]

(* the table with subtract declared right-associative *)
PRATT_PARSER_SubtractRight ==
    OpTable(<< {Infix("add", "Left"), Infix("subtract", "Right")},
               {Infix("multiply", "Left"), Infix("divide", "Left"),
                Infix("modulo", "Left")},
               {Infix("power", "Right")},
               {Prefix("unary_minus")} >>)

(* the table with power declared left-associative *)
PRATT_PARSER_PowerLeft ==
    OpTable(<< {Infix("add", "Left"), Infix("subtract", "Left")},
               {Infix("multiply", "Left"), Infix("divide", "Left"),
                Infix("modulo", "Left")},
               {Infix("power", "Left")},
               {Prefix("unary_minus")} >>)

(* the table with the first two .op(...) lines in the other order *)
PRATT_PARSER_TiersSwapped ==
    OpTable(<< {Infix("multiply", "Left"), Infix("divide", "Left"),
                Infix("modulo", "Left")},
               {Infix("add", "Left"), Infix("subtract", "Left")},
               {Infix("power", "Right")},
               {Prefix("unary_minus")} >>)

(* the table with the last two .op(...) lines in the other order *)
PRATT_PARSER_MinusBelowPower ==
    OpTable(<< {Infix("add", "Left"), Infix("subtract", "Left")},
               {Infix("multiply", "Left"), Infix("divide", "Left"),
                Infix("modulo", "Left")},
               {Prefix("unary_minus")},
               {Infix("power", "Right")} >>)

PRATT_PARSER ==
    OpTable(<< {Infix("add", "Left"), Infix("subtract", "Left")},
               {Infix("multiply", "Left"), Infix("divide", "Left"),
                Infix("modulo", "Left")},
               {Infix("power", "Right")},
               {Prefix("unary_minus")} >>)

(***************************************************************************)
(* The closures handed to the Pratt parser                                 *)
(***************************************************************************)
(* the match without its Rule::modulo arm *)
InfixOp_NoModulo(rule) ==
    CASE rule = "add" -> "Add"
      [] rule = "subtract" -> "Subtract"
      [] rule = "multiply" -> "Multiply"
      [] rule = "divide" -> "Divide"
      [] rule = "power" -> "Power"
      [] OTHER -> "unreachable"

InfixOp(rule) ==
    CASE rule = "add" -> "Add"
      [] rule = "subtract" -> "Subtract"
      [] rule = "multiply" -> "Multiply"
      [] rule = "divide" -> "Divide"
      [] rule = "modulo" -> "Modulo"
      [] rule = "power" -> "Power"
      [] OTHER -> "unreachable"

map_infix(lhs, op, rhs) ==
    IF InfixOp(op.rule) = "unreachable"
    THEN Panic("Expr::parse expected infix operation")
    ELSE BinOp(lhs, InfixOp(op.rule), rhs)

map_prefix(op, rhs) ==
    IF op.rule = "unary_minus" THEN UnaryMinus(rhs)
    ELSE Panic("Expr::parse expected prefix operation")

(* String::from("parse_failure_function"): the name parse_function starts with *)
ParseFailureName ==
    <<"p", "a", "r", "s", "e", "_", "f", "a", "i", "l", "u", "r", "e",
      "_", "f", "u", "n", "c", "t", "i", "o", "n">>

RECURSIVE parse_expr(_), parse_function(_), map_primary(_)
RECURSIVE function_loop(_, _, _), args_loop(_, _)
RECURSIVE expr(_, _), climb(_, _, _), nud(_), led(_, _)

(* the loop putting each argument in front of the earlier ones *)
args_loop_Reversed(toks, args) ==
    IF toks = <<>> THEN [panic |-> NoResult, args |-> args]
    ELSE LET arg == parse_expr(Head(toks).inner)
         IN  IF IsPanic(arg) THEN [panic |-> arg, args |-> args]
             ELSE args_loop(Tail(toks), <<arg>> \o args)

(* for arg in pair.into_inner() { args.push(Box::new(parse_expr(arg.into_inner()))) } *)
(* The result is [panic |-> the panic, or NoResult, args |-> the vector so far].     *)
args_loop(toks, args) ==
    IF toks = <<>> THEN [panic |-> NoResult, args |-> args]
    ELSE LET arg == parse_expr(Head(toks).inner)
         IN  IF IsPanic(arg) THEN [panic |-> arg, args |-> args]
             ELSE args_loop(Tail(toks), Append(args, arg))

(* for pair in pairs { match pair.as_rule() { ... } }  Expr::Function { name, args } *)
function_loop(toks, name, args) ==
    IF toks = <<>> THEN Function(name, args)
    ELSE LET pair == Head(toks)
         IN  CASE pair.rule = "function_name" ->
                    function_loop(Tail(toks), pair.str, args)
               [] pair.rule = "function_args" ->
                    LET r == args_loop(pair.inner, args)
                    IN  IF IsPanic(r.panic) THEN r.panic
                        ELSE function_loop(Tail(toks), name, r.args)
               [] OTHER -> Panic("Unknown")

parse_function(toks) == function_loop(toks, ParseFailureName, <<>>)

(* the closure keeping a node for the parentheses of a grouped expr *)
map_primary_KeepsGroup(primary) ==
    CASE primary.rule = "number" ->
            LET f == ParseF64(primary.str)
            IN  IF f.ok THEN Number(f.val)
                ELSE Panic("called Result::unwrap() on an Err value: ParseFloatError")
      [] primary.rule = "expr" ->
            LET e == parse_expr(primary.inner)
            IN  IF IsPanic(e) THEN e ELSE [kind |-> "Group", arg |-> e]
      [] primary.rule = "function" -> parse_function(primary.inner)
      [] OTHER -> Panic("Expr::parse expected atom")

map_primary(primary) ==
    CASE primary.rule = "number" ->
            LET f == ParseF64(primary.str)
            IN  IF f.ok THEN Number(f.val)
                ELSE Panic("called Result::unwrap() on an Err value: ParseFloatError")
      [] primary.rule = "expr" -> parse_expr(primary.inner)
      [] primary.rule = "function" -> parse_function(primary.inner)
      [] OTHER -> Panic("Expr::parse expected atom")

(***************************************************************************)
(* The Pratt parser that .parse(pairs) runs over the token sequence.  Each *)
(* step returns [val |-> an outcome, rest |-> the tokens not yet taken].   *)
(***************************************************************************)
(* lbp: the precedence of the next token, 0 at the end of the tokens *)
lbp(toks) ==
    IF toks = <<>> THEN [panic |-> NoResult, prec |-> 0]
    ELSE IF Head(toks).rule \in DOMAIN PRATT_PARSER
         THEN [panic |-> NoResult, prec |-> PRATT_PARSER[Head(toks).rule].prec]
         ELSE [panic |-> Panic("Expected operator"), prec |-> 0]

(* nud: a prefix operator applied to what follows it, or a primary *)
nud(toks) ==
    IF toks = <<>>
    THEN [val |-> Panic("Pratt parser expects non-empty Pairs"), rest |-> toks]
    ELSE LET pair == Head(toks)
         IN  IF pair.rule \notin DOMAIN PRATT_PARSER
             THEN [val |-> map_primary(pair), rest |-> Tail(toks)]
             ELSE IF PRATT_PARSER[pair.rule].affix = "Prefix"
             THEN LET rhs == expr(Tail(toks), PRATT_PARSER[pair.rule].prec - 1)
                  IN  IF IsPanic(rhs.val) THEN rhs
                      ELSE [val |-> map_prefix(pair, rhs.val), rest |-> rhs.rest]
             ELSE [val |-> Panic("Expected prefix or primary expression"),
                   rest |-> Tail(toks)]

(* led: an infix operator and its right operand, folded onto lhs *)
led(toks, lhs) ==
    LET pair == Head(toks)
    IN  IF pair.rule \in DOMAIN PRATT_PARSER
           /\ PRATT_PARSER[pair.rule].affix = "Infix"
        THEN LET op == PRATT_PARSER[pair.rule]
                 rhs == IF op.assoc = "Left" THEN expr(Tail(toks), op.prec)
                        ELSE expr(Tail(toks), op.prec - 1)
             IN  IF IsPanic(rhs.val) THEN rhs
                 ELSE [val |-> map_infix(lhs, pair, rhs.val), rest |-> rhs.rest]
        ELSE [val |-> Panic("Expected postfix or infix expression"),
              rest |-> Tail(toks)]

(* while rbp < self.lbp(pairs) { lhs = self.led(pairs, lhs) }  lhs *)
climb(lhs, toks, rbp) ==
    LET p == lbp(toks)
    IN  IF IsPanic(p.panic) THEN [val |-> p.panic, rest |-> toks]
        ELSE IF rbp < p.prec
        THEN LET l == led(toks, lhs)
             IN  IF IsPanic(l.val) THEN l ELSE climb(l.val, l.rest, rbp)
        ELSE [val |-> lhs, rest |-> toks]

(* let mut lhs = self.nud(pairs); then the loop above *)
expr(toks, rbp) ==
    LET n == nud(toks)
    IN  IF IsPanic(n.val) THEN n ELSE climb(n.val, n.rest, rbp)

parse_expr(toks) == expr(toks, 0).val

(***************************************************************************)
(* CalculatorParser::parse(Rule::equation, text): the grammar stage,       *)
(* grammar/numeric_evaluator.pest.  An ordered-choice (PEG) recogniser:    *)
(*   equation      = _{ SOI ~ expr ~ EOI }                                 *)
(*   expr          =  { atom ~ more }      more = zero or more bin_op atom *)
(*   atom          = _{ unary_minus? ~ primary }                           *)
(*   primary       = _{ number | function | "(" ~ expr ~ ")" }             *)
(*   function      =  { function_name ~ "(" ~ function_args ~ ")" }        *)
(*   function_args =  { nothing, or expr followed by zero or more , expr } *)
(*   number        = @{ digit+ ~ ("." ~ digit+)? }                         *)
(* with blanks skipped between tokens.  Every step returns                 *)
(* [ok |-> matched, pos |-> the next position, toks |-> the tokens made].  *)
(***************************************************************************)
Alpha == {"a", "b", "c", "d", "e", "f", "g", "h", "i", "j", "k", "l", "m",
          "n", "o", "p", "q", "r", "s", "t", "u", "v", "w", "x", "y", "z"}

BinOpRule(c) ==
    CASE c = "+" -> "add"
      [] c = "-" -> "subtract"
      [] c = "*" -> "multiply"
      [] c = "/" -> "divide"
      [] c = "%" -> "modulo"
      [] c = "^" -> "power"
      [] OTHER -> "none"

Fail == [ok |-> FALSE, pos |-> 0, toks |-> <<>>]
Match(pos, toks) == [ok |-> TRUE, pos |-> pos, toks |-> toks]
At(t, i, c) == i <= Len(t) /\ t[i] = c
Span(t, i, j) == SubSeq(t, i, j - 1)

RECURSIVE SkipBlanks(_, _)
SkipBlanks(t, i) == IF At(t, i, " ") THEN SkipBlanks(t, i + 1) ELSE i

RECURSIVE SkipWhile(_, _, _)
SkipWhile(t, i, S) ==
    IF i <= Len(t) /\ t[i] \in S THEN SkipWhile(t, i + 1, S) ELSE i

(* ordered choice, and a sequence's continuation after a matched step *)
Or(a, b) == IF a.ok THEN a ELSE b
Before(toks, m) == IF m.ok THEN Match(m.pos, toks \o m.toks) ELSE Fail

g_number(t, i) ==
    LET j == SkipWhile(t, i, Digits)
        k == IF At(t, j, ".") THEN SkipWhile(t, j + 1, Digits) ELSE j
        e == IF k > j + 1 THEN k ELSE j
    IN  IF j = i THEN Fail ELSE Match(e, <<Tok("number", Span(t, i, e), <<>>)>>)

RECURSIVE g_expr(_, _), g_more(_, _), g_atom(_, _), g_primary(_, _)
RECURSIVE g_function(_, _), g_function_args(_, _), g_more_args(_, _)

(* after "(" ~ expr: the closing parenthesis *)
g_close(t, e) ==
    IF e.ok /\ At(t, SkipBlanks(t, e.pos), ")")
    THEN Match(SkipBlanks(t, e.pos) + 1, e.toks)
    ELSE Fail

g_group(t, i) ==
    IF At(t, i, "(") THEN g_close(t, g_expr(t, SkipBlanks(t, i + 1))) ELSE Fail

g_primary(t, i) == Or(g_number(t, i), Or(g_function(t, i), g_group(t, i)))

g_atom(t, i) ==
    IF At(t, i, "-")
    THEN Before(<<Tok("unary_minus", Span(t, i, i + 1), <<>>)>>,
                g_primary(t, SkipBlanks(t, i + 1)))
    ELSE g_primary(t, i)

(* more: the tokens of the longest run of operator-operand pairs from i on; *)
(* a is the operand tried after the operator at o                          *)
g_pair(t, i, o, a) ==
    IF a.ok
    THEN Before(<<Tok(BinOpRule(t[o]), Span(t, o, o + 1), <<>>)>> \o a.toks,
                g_more(t, a.pos))
    ELSE Match(i, <<>>)

g_more(t, i) ==
    IF SkipBlanks(t, i) <= Len(t) /\ BinOpRule(t[SkipBlanks(t, i)]) # "none"
    THEN g_pair(t, i, SkipBlanks(t, i),
                g_atom(t, SkipBlanks(t, SkipBlanks(t, i) + 1)))
    ELSE Match(i, <<>>)

(* the expr token spanning i up to the end of what m matched *)
g_wrap(t, i, rule, m) ==
    IF m.ok THEN Match(m.pos, <<Tok(rule, Span(t, i, m.pos), m.toks)>>) ELSE Fail

g_then_more(t, a) == IF a.ok THEN Before(a.toks, g_more(t, a.pos)) ELSE Fail

g_expr(t, i) == g_wrap(t, i, "expr", g_then_more(t, g_atom(t, i)))

(* zero or more: a comma, then an expr *)
g_comma_expr(t, i, e) ==
    IF e.ok THEN Before(e.toks, g_more_args(t, e.pos)) ELSE Match(i, <<>>)

g_more_args(t, i) ==
    IF At(t, SkipBlanks(t, i), ",")
    THEN g_comma_expr(t, i, g_expr(t, SkipBlanks(t, SkipBlanks(t, i) + 1)))
    ELSE Match(i, <<>>)

g_function_args(t, i) ==
    g_wrap(t, i, "function_args", g_comma_expr(t, i, g_expr(t, i)))

(* after function_name ~ "(" ~ function_args: the closing parenthesis *)
g_call(t, i, j, a) ==
    IF At(t, SkipBlanks(t, a.pos), ")")
    THEN Match(SkipBlanks(t, a.pos) + 1,
               <<Tok("function", Span(t, i, SkipBlanks(t, a.pos) + 1),
                     <<Tok("function_name", Span(t, i, j), <<>>)>> \o a.toks)>>)
    ELSE Fail

g_function(t, i) ==
    IF SkipWhile(t, i, Alpha) > i /\ At(t, SkipWhile(t, i, Alpha), "(")
    THEN g_call(t, i, SkipWhile(t, i, Alpha),
                g_function_args(t, SkipBlanks(t, SkipWhile(t, i, Alpha) + 1)))
    ELSE Fail

(* Ok(the pairs of equation: its expr, then EOI), or Err *)
CalculatorParser_parse(text) ==
    LET e == g_expr(text, SkipBlanks(text, 1))
    IN  IF e.ok /\ SkipBlanks(text, e.pos) = Len(text) + 1
        THEN [ok |-> TRUE, pairs |-> e.toks \o <<Tok("EOI", <<>>, <<>>)>>]
        ELSE [ok |-> FALSE, pairs |-> <<>>]

(***************************************************************************)
(* pub fn parse(expression: &str) -> Expr                                  *)
(***************************************************************************)
(* parse falling back to a default Expr where the grammar stage fails *)
parse_Lenient(text) ==
    LET parsed == CalculatorParser_parse(text)
    IN  IF ~parsed.ok \/ parsed.pairs = <<>> THEN Number(Zero(FALSE))
        ELSE parse_expr(Head(parsed.pairs).inner)

parse(text) ==
    LET parsed == CalculatorParser_parse(text)
    IN  IF ~parsed.ok
        THEN Panic("called Result::unwrap() on an Err value: pest::error::Error")
        ELSE IF parsed.pairs = <<>>
        THEN Panic("called Option::unwrap() on a None value")
        ELSE parse_expr(Head(parsed.pairs).inner)

(***************************************************************************)
(* Inputs                                                                  *)
(***************************************************************************)
MaxOperands == 4
MaxNestedOperands == 2
MaxTextLen == 4

InfixRules == {"add", "subtract", "multiply", "divide", "modulo", "power"}

OpSym(rule) ==
    CASE rule = "add" -> "+"
      [] rule = "subtract" -> "-"
      [] rule = "multiply" -> "*"
      [] rule = "divide" -> "/"
      [] rule = "modulo" -> "%"
      [] rule = "power" -> "^"
      [] rule = "unary_minus" -> "-"

DigitTexts == [i \in 0..9 |-> CHOOSE c \in Digits : DigitVal(c) = i]
DigitOf(i) == DigitTexts[i]

\* A token's text is the part of the input it spans, so a token that has
\* children spans their text: the sequences handed to parse_expr directly
\* are the tokens of the input made of the text of their leaves, in order.
RECURSIVE TextOf(_)
TextOf(toks) ==
    IF toks = <<>> THEN <<>>
    ELSE TextOf(SubSeq(toks, 1, Len(toks) - 1)) \o toks[Len(toks)].str

Over(rule, toks) == Tok(rule, TextOf(toks), toks)

Num(txt) == Tok("number", txt, <<>>)
OpTok(rule) == Tok(rule, <<OpSym(rule)>>, <<>>)
Group(toks) == Over("expr", toks)
Name(txt) == Tok("function_name", txt, <<>>)
Args(exprs) == Over("function_args", exprs)
Call(txt, exprs) == Over("function", <<Name(txt), Args(exprs)>>)

(* the operand-operator sequence of the n operands P[1..n], P[i] preceded *)
(* by a unary minus where minus[i], with the operator ops[i] after P[i]    *)
RECURSIVE Build(_, _, _, _)
Build(P, ops, minus, n) ==
    LET atom == IF minus[n] THEN <<OpTok("unary_minus"), P[n]>> ELSE <<P[n]>>
    IN  IF n = 1 THEN atom
        ELSE Build(P, ops, minus, n - 1) \o <<OpTok(ops[n - 1])>> \o atom

(* ungrouped chains: the i-th operand is the number i *)
Positions(n) == [i \in 1..n |-> Num(<<DigitOf(i)>>)]

N1 == Num(<<"1">>)
N2 == Num(<<"2">>)
N3 == Num(<<"3">>)

NestedPrimaries ==
    { Num(<<"1", ".", "5", "0">>),
      Group(<<N1, OpTok("add"), N2>>),
      Group(<<Group(<<N1, OpTok("subtract"), N2>>), OpTok("power"),
              OpTok("unary_minus"), N3>>),
      Over("function", <<Name(<<"f">>)>>),
      Call(<<"f">>, <<>>),
      Call(<<"m", "a", "x">>,
           <<Group(<<OpTok("unary_minus"), Call(<<"f">>, <<Group(<<N3>>)>>)>>),
             Group(<<N2, OpTok("add"), N3, OpTok("multiply"), N1>>),
             Group(<<N1>>)>>) }

(* the operators of a sequence of n nested primaries: any operator after   *)
(* the first primary, one operator of each tier after the later ones       *)
OneOfEachTier == {"subtract", "modulo", "power"}
NestedOps(n) ==
    {ops \in [1..(n - 1) -> InfixRules] :
        \A k \in 2..(n - 1) : ops[k] \in OneOfEachTier}

(* token trees the grammar never makes: one token of a tree given another  *)
(* rule, and function tokens that lack their function_name                 *)
AllRules ==
    InfixRules \cup {"unary_minus", "number", "expr", "function",
                     "function_name", "function_args", "equation", "EOI"}

RECURSIVE RuleChanged(_), RuleChangedIn(_)
RuleChanged(t) ==
    {[t EXCEPT !.rule = r] : r \in AllRules \ {t.rule}}
        \cup {[t EXCEPT !.inner = s] : s \in RuleChangedIn(t.inner)}
RuleChangedIn(toks) ==
    IF toks = <<>> THEN {}
    ELSE {<<m>> \o Tail(toks) : m \in RuleChanged(Head(toks))}
            \cup {<<Head(toks)>> \o m : m \in RuleChangedIn(Tail(toks))}

Wellformed ==
    { <<OpTok("unary_minus"), N1, OpTok("add"),
        Call(<<"f">>, <<Group(<<N2>>), Group(<<N3, OpTok("power"), N1>>)>>)>>,
      <<Group(<<N1, OpTok("multiply"), N2>>), OpTok("modulo"), N3>> }

Nameless ==
    { <<Tok("function", <<>>, <<>>)>>,
      <<Over("function", <<Args(<<Group(<<N1>>)>>)>>)>>,
      <<N2, OpTok("divide"), Over("function", <<Args(<<>>)>>)>> }

RuleChangedTrees == UNION {RuleChangedIn(w) : w \in Wellformed}

(* token sequences no text of the grammar gives: number tokens whose text *)
(* f64 parsing takes or refuses beyond the grammar's literals, and a      *)
(* function_name token with the text parse_function starts from           *)
OutsideGrammar ==
    { <<Num(<<"1", "e", "5">>)>>,
      <<Num(<<"-", "1">>), OpTok("add"), Num(<<"i", "n", "f">>)>>,
      <<Num(<<".", "5">>), OpTok("power"), Num(<<"N", "a", "N">>)>>,
      <<N1, OpTok("subtract"), Num(<<"1", "e">>)>>,
      <<Call(ParseFailureName, <<>>)>> }

Malformed == RuleChangedTrees \cup Nameless \cup OutsideGrammar \cup {<<>>}

TextAlphabet == {"1", ".", "+", "-", "^", "(", ")", "f", ",", " ", "$"}

Texts == UNION {[1..n -> TextAlphabet] : n \in 0..MaxTextLen}

(***************************************************************************)
(* The calls                                                               *)
(***************************************************************************)
Init ==
    /\ result = NoResult
    /\ \/ /\ entry = "parse"
          /\ expression \in Texts
          /\ pairs = <<>>
       \/ /\ entry = "parse_expr"
          /\ expression = <<>>
          /\ \/ \E n \in 1..MaxOperands :
                   \E ops \in [1..(n - 1) -> InfixRules], minus \in [1..n -> BOOLEAN] :
                       pairs = Build(Positions(n), ops, minus, n)
             \/ \E n \in 1..MaxNestedOperands :
                   \E P \in [1..n -> NestedPrimaries],
                      ops \in NestedOps(n), minus \in [1..n -> BOOLEAN] :
                       pairs = Build(P, ops, minus, n)
             \/ pairs \in Malformed

(* parse(expression): the grammar stage, then parse_expr on the expr's tokens *)
Parse ==
    /\ entry = "parse"
    /\ result' = parse(expression)
    /\ pairs' = LET parsed == CalculatorParser_parse(expression)
                IN  IF parsed.ok THEN Head(parsed.pairs).inner ELSE <<>>
    /\ UNCHANGED <<entry, expression>>

(* parse_expr(pairs) *)
ParseExpr ==
    /\ entry = "parse_expr"
    /\ result' = parse_expr(pairs)
    /\ UNCHANGED <<entry, expression, pairs>>

Next == Parse \/ ParseExpr

Spec == Init /\ [][Next]_vars

Done == result # NoResult

(***************************************************************************)
(* The token sequences the grammar can make (section 3 and 6 of the        *)
(* specification): operands, each optionally preceded by unary_minus,      *)
(* separated by infix operators; an operand is a number, a grouped expr or *)
(* a function with a function_name and an optional function_args of exprs. *)
(***************************************************************************)
IsLiteral(txt) == g_number(txt, 1).ok /\ g_number(txt, 1).pos = Len(txt) + 1
IsIdentifier(txt) == txt # <<>> /\ \A i \in 1..Len(txt) : txt[i] \in Alpha

RECURSIVE Accepted(_), AcceptedFrom(_, _), AcceptedPrimary(_)
AcceptedPrimary(t) ==
    CASE t.rule = "number" -> t.inner = <<>> /\ IsLiteral(t.str)
      [] t.rule = "expr" -> Accepted(t.inner)
      [] t.rule = "function" ->
            /\ Len(t.inner) \in {1, 2}
            /\ t.inner[1].rule = "function_name"
            /\ t.inner[1].inner = <<>>
            /\ IsIdentifier(t.inner[1].str)
            /\ Len(t.inner) = 2 =>
                  /\ t.inner[2].rule = "function_args"
                  /\ \A j \in 1..Len(t.inner[2].inner) :
                        /\ t.inner[2].inner[j].rule = "expr"
                        /\ Accepted(t.inner[2].inner[j].inner)
      [] OTHER -> FALSE

AcceptedFrom(toks, i) ==
    LET p == IF i <= Len(toks) /\ toks[i] = OpTok("unary_minus") THEN i + 1 ELSE i
    IN  /\ p <= Len(toks)
        /\ AcceptedPrimary(toks[p])
        /\ \/ p = Len(toks)
           \/ /\ p + 1 < Len(toks)
              /\ toks[p + 1].rule \in InfixRules
              /\ toks[p + 1].inner = <<>>
              /\ AcceptedFrom(toks, p + 2)

Accepted(toks) == toks # <<>> /\ AcceptedFrom(toks, 1)

(***************************************************************************)
(* Reading an AST                                                          *)
(***************************************************************************)
(* the nodes of an AST, the root first *)
RECURSIVE NodeSeq(_), NodeSeqOfArgs(_, _)
NodeSeq(e) ==
    <<e>> \o
    CASE e.kind = "BinOp" -> NodeSeq(e.lhs) \o NodeSeq(e.rhs)
      [] e.kind = "UnaryMinus" -> NodeSeq(e.arg)
      [] e.kind = "Function" -> NodeSeqOfArgs(e.args, Len(e.args))
      [] OTHER -> <<>>
NodeSeqOfArgs(args, n) ==
    IF n = 0 THEN <<>> ELSE NodeSeqOfArgs(args, n - 1) \o NodeSeq(args[n])

Range(s) == {s[i] : i \in 1..Len(s)}
Nodes(e) == Range(NodeSeq(e))

ExprKinds == {"Number", "BinOp", "UnaryMinus", "Function"}
IsExpr(e) == \A n \in Nodes(e) : n.kind \in ExprKinds
BinOps(e) == {n \in Nodes(e) : n.kind = "BinOp"}

(* the tiers of the infix operators, lowest first *)
Tier(op) ==
    CASE op \in {"Add", "Subtract"} -> 1
      [] op \in {"Multiply", "Divide", "Modulo"} -> 2
      [] op = "Power" -> 3

(* the f64 n * 2^e of a natural n > 0, the f64 of a natural k > 0, and *)
(* the digit 1..9 an f64 is the value of (0 if it is none)             *)
RECURSIVE Dyadic(_, _)
Dyadic(n, e) ==
    IF n % 2 = 0 THEN Dyadic(n \div 2, e + 1)
    ELSE Finite(FALSE, NatBits(n), e)

F64Of(k) == Dyadic(k, 0)

SmallF64 == [k \in 1..9 |-> F64Of(k)]

RECURSIVE BitsNat(_, _)
BitsNat(bits, i) == IF i = 0 THEN 0 ELSE 2 * BitsNat(bits, i - 1) + bits[i]

IntOf(v) ==
    IF v.class = "finite" /\ ~v.neg /\ v.exp \in 0..3 /\ Len(v.mant) \in 1..4
         /\ BitsNat(v.mant, Len(v.mant)) * 2^v.exp <= 9
    THEN BitsNat(v.mant, Len(v.mant)) * 2^v.exp ELSE 0

(* the first and the last number of an AST read left to right *)
RECURSIVE First(_), Last(_)
First(e) ==
    CASE e.kind = "Number" -> IntOf(e.val)
      [] e.kind = "UnaryMinus" -> First(e.arg)
      [] e.kind = "BinOp" -> First(e.lhs)
Last(e) ==
    CASE e.kind = "Number" -> IntOf(e.val)
      [] e.kind = "UnaryMinus" -> Last(e.arg)
      [] e.kind = "BinOp" -> Last(e.rhs)

(***************************************************************************)
(* Reading a chain: an ungrouped sequence whose k-th operand is the number *)
(* k, so that the k-th infix operator stands between operands k and k + 1  *)
(***************************************************************************)
(* the sequence with its k-th primary replaced by the number k *)
OperatorRules == InfixRules \cup {"unary_minus"}
IsOperator(t) == t.rule \in OperatorRules
Primaries(toks) == SelectSeq(toks, LAMBDA t : ~IsOperator(t))
RECURSIVE SkeletonFrom(_, _, _)
SkeletonFrom(toks, i, k) ==
    IF i > Len(toks) THEN <<>>
    ELSE IF IsOperator(toks[i]) THEN <<toks[i]>> \o SkeletonFrom(toks, i + 1, k)
    ELSE <<Num(<<DigitOf(k)>>)>> \o SkeletonFrom(toks, i + 1, k + 1)
Skeleton(toks) == SkeletonFrom(toks, 1, 1)
IsChain ==
    Done /\ entry = "parse_expr" /\ Skeleton(pairs) = pairs /\ Accepted(pairs)
InfixToks == SelectSeq(pairs, LAMBDA t : t.rule \in InfixRules)
NOps == Len(InfixToks)
OpAt(k) == InfixOp(InfixToks[k].rule)
MinusBefore(num) ==
    \E i \in 2..Len(pairs) :
        pairs[i - 1].rule = "unary_minus" /\ pairs[i] = num
HasMinus(k) == MinusBefore(Num(<<DigitOf(k)>>))
AtomAst(k) ==
    IF HasMinus(k) THEN UnaryMinus(Number(SmallF64[k])) ELSE Number(SmallF64[k])
(* the BinOp nodes made from the k-th infix operator *)
NodesOfIn(binops, k, op) ==
    {n \in binops : n.op = op /\ Last(n.lhs) = k /\ First(n.rhs) = k + 1}
NodesOf(k) == NodesOfIn(BinOps(result), k, OpAt(k))
(* every infix operator of the chain made exactly one BinOp, and no other is there *)
ChainKeptIn(binops, ops) ==
    /\ \A k \in 1..Len(ops) :
          Cardinality(NodesOfIn(binops, k, InfixOp(ops[k].rule))) = 1
    /\ Cardinality(binops) = Len(ops)
    /\ Len(ops) = 0 => result = AtomAst(1)
ChainKept == ChainKeptIn(BinOps(result), InfixToks)

(* C1: in a chain, two consecutive infix operators of one left-associative *)
(* tier (add/subtract, or multiply/divide/modulo) fold to the left: the    *)
(* second one's BinOp has as lhs the first one's BinOp, whose rhs is the   *)
(* operand between them; the first one's BinOp never has the second one's  *)
(* as its rhs.                                                             *)
C1_LeftFold ==
    IsChain =>
        /\ ChainKept
        /\ \A k \in 1..(NOps - 1) :
              (Tier(OpAt(k)) = Tier(OpAt(k + 1)) /\ Tier(OpAt(k)) \in {1, 2}) =>
                 /\ \E n \in NodesOf(k + 1) :
                       /\ n.lhs \in NodesOf(k)
                       /\ n.lhs.rhs = AtomAst(k + 1)
                 /\ \A m \in NodesOf(k) : m.rhs \notin NodesOf(k + 1)

C1_Witness ==
    /\ IsChain
    /\ pairs = <<Num(<<"1">>), OpTok("subtract"), Num(<<"2">>), OpTok("add"),
                 Num(<<"3">>)>>
    /\ result = BinOp(BinOp(Number(F64Of(1)), "Subtract", Number(F64Of(2))),
                      "Add", Number(F64Of(3)))

(* C2: in a chain, two consecutive power operators fold to the right: the  *)
(* first one's BinOp has the operand before it as lhs and the second one's *)
(* BinOp as rhs, whose lhs is the operand between them; a chain of power   *)
(* operators alone gives the right-nested tower.                           *)
RECURSIVE Tower(_, _)
Tower(k, n) ==
    IF k = n THEN AtomAst(k) ELSE BinOp(AtomAst(k), "Power", Tower(k + 1, n))

C2_RightFold ==
    IsChain =>
        /\ ChainKept
        /\ \A k \in 1..(NOps - 1) :
              (OpAt(k) = "Power" /\ OpAt(k + 1) = "Power") =>
                 /\ \E n \in NodesOf(k) :
                       /\ n.lhs = AtomAst(k)
                       /\ n.rhs \in NodesOf(k + 1)
                       /\ n.rhs.lhs = AtomAst(k + 1)
                 /\ \A m \in NodesOf(k + 1) : m.lhs \notin NodesOf(k)
        /\ (\A k \in 1..NOps : OpAt(k) = "Power") => result = Tower(1, NOps + 1)

C2_Witness ==
    /\ IsChain
    /\ pairs = <<Num(<<"1">>), OpTok("power"), Num(<<"2">>), OpTok("power"),
                 Num(<<"3">>)>>
    /\ result = BinOp(Number(F64Of(1)), "Power",
                      BinOp(Number(F64Of(2)), "Power", Number(F64Of(3))))

(* C3: in the AST of a chain no BinOp has a BinOp of a strictly lower tier *)
(* as a direct child, and of two adjacent operators of different tiers the *)
(* higher one's BinOp lies inside the lower one's operand on that side.    *)
C3_Precedence ==
    IsChain =>
        /\ ChainKept
        /\ \A n \in BinOps(result) :
              /\ n.lhs.kind = "BinOp" => Tier(n.lhs.op) >= Tier(n.op)
              /\ n.rhs.kind = "BinOp" => Tier(n.rhs.op) >= Tier(n.op)
        /\ \A k \in 1..(NOps - 1) :
              /\ Tier(OpAt(k)) < Tier(OpAt(k + 1)) =>
                    \A n \in NodesOf(k) : NodesOf(k + 1) \subseteq Nodes(n.rhs)
              /\ Tier(OpAt(k)) > Tier(OpAt(k + 1)) =>
                    \A n \in NodesOf(k + 1) : NodesOf(k) \subseteq Nodes(n.lhs)

C3_Witness ==
    /\ IsChain
    /\ pairs = <<Num(<<"1">>), OpTok("add"), Num(<<"2">>), OpTok("multiply"),
                 Num(<<"3">>), OpTok("power"), Num(<<"4">>)>>
    /\ result = BinOp(Number(F64Of(1)), "Add",
                      BinOp(Number(F64Of(2)), "Multiply",
                            BinOp(Number(F64Of(3)), "Power", Number(F64Of(4)))))

(* C4: unary minus binds tighter than every infix operator: each           *)
(* unary_minus token makes a UnaryMinus whose operand is the AST of the    *)
(* one primary after it; in a chain that operand is the number itself,     *)
(* never a BinOp, and only the operands written with a minus are negated.  *)
C4_UnaryMinusBinds ==
    (Done /\ Accepted(pairs)) =>
        /\ LET nodes == Nodes(result)
           IN  \A i \in 1..(Len(pairs) - 1) :
                  pairs[i].rule = "unary_minus" =>
                     UnaryMinus(parse_expr(<<pairs[i + 1]>>)) \in nodes
        /\ IsChain =>
              /\ ChainKept
              /\ \A k \in 1..(NOps + 1) : AtomAst(k) \in Nodes(result)
              /\ \A u \in Nodes(result) :
                    u.kind = "UnaryMinus" =>
                       u.arg.kind = "Number" /\ HasMinus(IntOf(u.arg.val))

C4_Witness ==
    /\ IsChain
    /\ pairs = <<OpTok("unary_minus"), Num(<<"1">>), OpTok("power"),
                 OpTok("unary_minus"), Num(<<"2">>)>>
    /\ result = BinOp(UnaryMinus(Number(F64Of(1))), "Power",
                      UnaryMinus(Number(F64Of(2))))

(* an AST with the number k replaced by f[k] *)
RECURSIVE Plug(_, _)
Plug(e, f) ==
    CASE e.kind = "Number" -> f[IntOf(e.val)]
      [] e.kind = "UnaryMinus" -> UnaryMinus(Plug(e.arg, f))
      [] e.kind = "BinOp" -> BinOp(Plug(e.lhs, f), e.op, Plug(e.rhs, f))
PrimaryAsts(toks) ==
    [k \in 1..Len(Primaries(toks)) |-> parse_expr(<<Primaries(toks)[k]>>)]

(* C5: a grouped expr is one operand whatever the operators around it: the *)
(* AST of a sequence is the AST of the same sequence over plain numbers    *)
(* with each primary's AST put in its number's place; an expr token gives  *)
(* the AST of its inner sequence, and nothing in the AST stands for the    *)
(* grouping.                                                               *)
C5_Grouping ==
    (Done /\ Accepted(pairs)) =>
        /\ IsExpr(result)
        /\ result = Plug(parse_expr(Skeleton(pairs)), PrimaryAsts(pairs))
        /\ parse_expr(<<Group(pairs)>>) = result
        /\ \A i \in 1..Len(pairs) :
              pairs[i].rule = "expr" =>
                 parse_expr(<<pairs[i]>>) = parse_expr(pairs[i].inner)

C5_Witness ==
    /\ Done
    /\ pairs = <<Group(<<N1, OpTok("add"), N2>>), OpTok("multiply"),
                 Num(<<"1", ".", "5", "0">>)>>
    /\ result = BinOp(BinOp(Number(F64Of(1)), "Add", Number(F64Of(2))),
                      "Multiply", Number(Dyadic(3, -1)))

(* the tokens of a token sequence at any depth *)
RECURSIVE TokenSeq(_, _)
TokenSeq(toks, n) ==
    IF n = 0 THEN <<>>
    ELSE TokenSeq(toks, n - 1) \o <<toks[n]>>
            \o TokenSeq(toks[n].inner, Len(toks[n].inner))
TokensIn(toks) == Range(TokenSeq(toks, Len(toks)))

ArgsOf(t) == IF Len(t.inner) = 2 THEN t.inner[2].inner ELSE <<>>
ExpectedCall(t) ==
    Function(t.inner[1].str,
             [j \in 1..Len(ArgsOf(t)) |-> parse_expr(ArgsOf(t)[j].inner)])

CallIs(call, expected, t) ==
    /\ call = expected
    /\ Len(call.args) = Len(ArgsOf(t))
    /\ expected \in Nodes(result)

(* C6: every function token, at any depth, becomes Function{name, args}    *)
(* with the function_name's text as name and, as args, the ASTs of its     *)
(* argument exprs parsed one by one, in order, as many as there are; no    *)
(* or an empty function_args gives no args.                                *)
C6_FunctionCall ==
    (Done /\ Accepted(pairs)) =>
        \A t \in TokensIn(pairs) :
            t.rule = "function" =>
                CallIs(parse_function(t.inner), ExpectedCall(t), t)

C6_Witness ==
    /\ Done
    /\ pairs = <<Call(<<"m", "a", "x">>,
                      <<Group(<<OpTok("unary_minus"),
                                Call(<<"f">>, <<Group(<<N3>>)>>)>>),
                        Group(<<N2, OpTok("add"), N3, OpTok("multiply"), N1>>),
                        Group(<<N1>>)>>)>>
    /\ result = Function(<<"m", "a", "x">>,
                         <<UnaryMinus(Function(<<"f">>, <<Number(F64Of(3))>>)),
                           BinOp(Number(F64Of(2)), "Add",
                                 BinOp(Number(F64Of(3)), "Multiply",
                                       Number(F64Of(1)))),
                           Number(F64Of(1))>>)

Count(text, c) == Cardinality({i \in 1..Len(text) : text[i] = c})
Unbalanced(text) == Count(text, "(") # Count(text, ")")
HasInvalid(text) ==
    \E i \in 1..Len(text) :
        text[i] \notin Digits \cup Alpha
                       \cup {"+", "-", "*", "/", "%", "^", "(", ")", ",", ".", " "}

(* C7: a text the grammar rejects (so every empty text, every text with    *)
(* unbalanced parentheses or an invalid character) makes parse end in the  *)
(* failure of the grammar stage: it returns no Expr.                       *)
C7_SyntaxFailure ==
    (/\ Done
     /\ entry = "parse"
     /\ \/ ~CalculatorParser_parse(expression).ok
        \/ expression = <<>>
        \/ Unbalanced(expression)
        \/ HasInvalid(expression)) =>
        /\ result = Panic("called Result::unwrap() on an Err value: pest::error::Error")
        /\ result.kind \notin ExprKinds

C7_Witness ==
    /\ Done
    /\ entry = "parse"
    /\ expression = <<"(", "1", "+", "1">>
    /\ IsPanic(result)

(* C8: no Function of a returned AST is named by the fallback: each name   *)
(* is the text of a function_name token of the token tree.                 *)
C8_NoPlaceholderName ==
    (Done /\ ~IsPanic(result)) =>
        \A n \in Nodes(result) :
            n.kind = "Function" =>
               /\ n.name # ParseFailureName
               /\ \E t \in TokensIn(pairs) :
                     t.rule = "function_name" /\ t.str = n.name

(* C9: for a token sequence the grammar can make, a call returns an Expr   *)
(* and never panics, and a second call on the same tokens returns the same *)
(* AST; the tokens parse hands on are such a sequence.                     *)
C9_TotalDeterministic ==
    [][/\ Accepted(pairs') => (~IsPanic(result') /\ IsExpr(result'))
       /\ (entry = "parse" /\ CalculatorParser_parse(expression).ok) =>
              Accepted(pairs')
       /\ Done => result' = result]_vars

C9_Witness ==
    /\ Done
    /\ entry = "parse"
    /\ expression = <<"f", "(", "1", ")">>
    /\ result = Function(<<"f">>, <<Number(F64Of(1))>>)

(* every token has a kind expected where it stands: operands are numbers, *)
(* exprs or functions, after any unary_minus tokens; between operands      *)
(* stands an infix operator; a function holds function_name and            *)
(* function_args tokens, and a function_args holds exprs                   *)
RECURSIVE KindsExpected(_, _), KindsExpectedIn(_)
KindsExpectedIn(t) ==
    CASE t.rule = "expr" -> KindsExpected(t.inner, 1)
      [] t.rule = "function" ->
            \A i \in 1..Len(t.inner) :
                /\ t.inner[i].rule \in {"function_name", "function_args"}
                /\ t.inner[i].rule = "function_args" =>
                      \A j \in 1..Len(t.inner[i].inner) :
                          /\ t.inner[i].inner[j].rule = "expr"
                          /\ KindsExpected(t.inner[i].inner[j].inner, 1)
      [] OTHER -> TRUE
KindsExpected(toks, i) ==
    IF i > Len(toks) THEN TRUE
    ELSE IF toks[i].rule = "unary_minus" THEN KindsExpected(toks, i + 1)
    ELSE /\ toks[i].rule \in {"number", "expr", "function"}
         /\ KindsExpectedIn(toks[i])
         /\ i < Len(toks) =>
               /\ toks[i + 1].rule \in InfixRules
               /\ KindsExpected(toks, i + 2)

Unexpected ==
    /\ entry = "parse_expr"
    /\ pairs \in RuleChangedTrees
    /\ ~KindsExpected(pairs, 1)

(* C10: a token tree holding a token of a kind not expected where it       *)
(* stands never yields an AST: the call ends in a panic.                   *)
C10_UnexpectedTokenPanics == (Done /\ Unexpected) => IsPanic(result)

(* the cases of C10 other than a child of function_args that is no expr *)
ArgsAreExprs(toks) ==
    \A t \in TokensIn(toks) :
        t.rule = "function_args" =>
           \A j \in 1..Len(t.inner) : t.inner[j].rule = "expr"

C10_OtherUnexpectedTokensPanic ==
    (Done /\ Unexpected /\ ArgsAreExprs(pairs)) => IsPanic(result)

====
